---- MODULE Spec2Model ----
(***************************************************************************)
(* Model of the ASAR sea-state L2 processor:                               *)
(*   processor.py  generate_l2_wave_product, predict_variables,            *)
(*                 generate_product_on_land                                *)
(*   utils.py      apply_range_filters, add_quality_indices                *)
(*   main.py       main (the per-acquisition loop)                         *)
(*                                                                         *)
(* A variable of an xarray dataset is a record [dims, val, attrs]: dims is *)
(* the tuple of its dimension names, val holds one value per time sample   *)
(* when "time" is one of its dimensions and a single value otherwise (the  *)
(* contents along the trailing dimensions are uniform in every array the   *)
(* modelled code builds, so only their names and sizes are kept).  A       *)
(* dataset is a record [vars, coords, sizes, attrs].                       *)
(***************************************************************************)
EXTENDS Integers, Sequences, FiniteSets, TLC

\* pc, call, ret: a call of one function, its arguments and what it returned
\* (the specifications of the single functions).
\* The run of main(): args (the command line), yaml (the configuration
\* file), config (the dict load_config returned, shared by all iterations),
\* listing (the paths), path_idx (the position of the for loop), outputs
\* (the product file of each path) and log (what was logged, per path).
VARIABLES pc, call, ret, args, yaml, config, listing, path_idx, outputs, log

mainVars == <<args, yaml, config, listing, path_idx, outputs, log>>
vars == <<pc, call, ret, args, yaml, config, listing, path_idx, outputs, log>>

\* no run of main()
MainIdle ==
    /\ args = <<>> /\ yaml = <<>> /\ config = <<>> /\ listing = <<>>
    /\ path_idx = 0 /\ outputs = <<>> /\ log = <<>>

(* ------------------------------ bounds -------------------------------- *)
\* apply_range_filters: samples per acquisition, largest measured value
MaxTime == 3
MaxVal == 2
\* add_quality_indices: samples per confidence array, largest confidence
MaxSamples == 5
MaxConf == 4
\* processor: kept variables, declared outputs, predictor columns
MaxKept == 2
MaxOutputs == 3
MaxColumns == 3
\* main: paths in the listing
MaxListing == 2

(* ------------------------------ values -------------------------------- *)
\* np.nan: the one value every ordered comparison with is False
NaN == -1
Val == (0..MaxVal) \cup {NaN}

\* numpy comparisons: False as soon as an operand is NaN
Lt(a, b) == a # NaN /\ b # NaN /\ a < b
Ge(a, b) == a # NaN /\ b # NaN /\ a >= b
Le(a, b) == a # NaN /\ b # NaN /\ a <= b

SeqsUpTo(S, n) == UNION {[1..k -> S] : k \in 0..n}

(* ------------------------------ datasets ------------------------------ *)
HasTime(v) == \E k \in 1..Len(v.dims) : v.dims[k] = "time"
\* the value of variable v at time sample i (broadcast when v has no time axis)
ValAt(v, i) == IF HasTime(v) THEN v.val[i] ELSE v.val[1]
TimeVar(vals, attrs) == [dims |-> <<"time">>, val |-> vals, attrs |-> attrs]
DataVars(ds) == (DOMAIN ds.vars) \ ds.coords
DimSet(v) == {v.dims[k] : k \in 1..Len(v.dims)}
\* the coordinates a DataArray ds[n] carries: those of ds over its dimensions
CoordsOf(ds, n) == {c \in ds.coords : DimSet(ds.vars[c]) \subseteq DimSet(ds.vars[n])}
\* ds with the coordinates cs of src added (those ds does not hold yet)
WithCoords(ds, src, cs) ==
    [ds EXCEPT !.vars = [m \in (DOMAIN ds.vars) \cup cs |->
                            IF m \in DOMAIN ds.vars THEN ds.vars[m] ELSE src.vars[m]],
               !.coords = @ \cup (cs \ DOMAIN ds.vars)]
NoDs == [vars |-> <<>>, coords |-> {}, sizes |-> <<>>, attrs |-> "none"]
Ok(ds) == [err |-> "none", ds |-> ds]
Raise(e) == [err |-> e, ds |-> NoDs]

(* ----------------------- utils.apply_range_filters -------------------- *)
\* (l1b[var] >= min_val) & (l1b[var] <= max_val), one boolean per sample
VarMaskStrict(l1b, f) ==
    [i \in 1..l1b.sizes["time"] |->
        Lt(f.min, ValAt(l1b.vars[f.var], i)) /\ Lt(ValAt(l1b.vars[f.var], i), f.max)]
VarMask(l1b, f) ==
    [i \in 1..l1b.sizes["time"] |->
        Ge(ValAt(l1b.vars[f.var], i), f.min) /\ Le(ValAt(l1b.vars[f.var], i), f.max)]

\* the loop of lines 213-218: mask starts all True and is ANDed per filter
RECURSIVE FilterMask(_, _, _)
FilterMask(l1b, range_filters, k) ==
    IF k = 0 THEN [i \in 1..l1b.sizes["time"] |-> TRUE]
    ELSE LET prev == FilterMask(l1b, range_filters, k - 1)
             vm == VarMask(l1b, range_filters[k])
         IN [i \in 1..l1b.sizes["time"] |-> prev[i] /\ vm[i]]

\* Dataset.where(mask, nan): every data variable is broadcast against the
\* mask's time axis; coordinates are left alone
WhereVar(v, mask) ==
    [dims |-> IF HasTime(v) THEN v.dims ELSE Append(v.dims, "time"),
     val |-> [i \in 1..Len(mask) |-> IF mask[i] THEN ValAt(v, i) ELSE NaN],
     attrs |-> v.attrs]
Where(l2, mask) ==
    [l2 EXCEPT !.vars = [n \in DOMAIN l2.vars |->
                            IF n \in l2.coords THEN l2.vars[n]
                            ELSE WhereVar(l2.vars[n], mask)],
               !.sizes = IF DataVars(l2) = {} THEN l2.sizes
                         ELSE [d \in (DOMAIN l2.sizes) \cup {"time"} |->
                                 IF d = "time" THEN Len(mask) ELSE l2.sizes[d]]]
\* the mask is a DataArray built from l1b[var]: it carries the acquisition's
\* coordinates over the dimensions of the filtered variables, and where()
\* merges them into its result
MaskCoords(l1b, range_filters) ==
    UNION {CoordsOf(l1b, range_filters[k].var) : k \in 1..Len(range_filters)}

\* (a slip: the samples outside the ranges are dropped by boolean indexing
\* instead of being set to NaN)
RECURSIVE Kept(_, _)
Kept(vals, mask) ==
    IF Len(vals) = 0 THEN <<>>
    ELSE IF mask[Len(vals)] THEN Append(Kept(SubSeq(vals, 1, Len(vals) - 1), mask), vals[Len(vals)])
    ELSE Kept(SubSeq(vals, 1, Len(vals) - 1), mask)
apply_range_filters_dropping(l1b, l2, range_filters) ==
    IF Len(range_filters) = 0 THEN Ok(l2)
    ELSE IF \E k \in 1..Len(range_filters) :
                range_filters[k].var \notin DOMAIN l1b.vars
         THEN Raise("KeyError")
    ELSE IF l2.sizes["time"] # l1b.sizes["time"] THEN Raise("IndexError")
    ELSE LET mask == FilterMask(l1b, range_filters, Len(range_filters))
         IN Ok([l2 EXCEPT !.vars = [n \in DOMAIN l2.vars |->
                                      IF HasTime(l2.vars[n])
                                      THEN [l2.vars[n] EXCEPT !.val = Kept(@, mask)]
                                      ELSE l2.vars[n]],
                          !.sizes = [d \in DOMAIN l2.sizes |->
                                       IF d = "time"
                                       THEN Cardinality({i \in 1..Len(mask) : mask[i]})
                                       ELSE l2.sizes[d]]])
\* range_filters is the dict as the sequence of its items; None and {} are
\* both the empty sequence (`not range_filters`)
apply_range_filters(l1b, l2, range_filters) ==
    IF Len(range_filters) = 0 THEN Ok(l2)
    ELSE IF \E k \in 1..Len(range_filters) :
                range_filters[k].var \notin DOMAIN l1b.vars
         THEN Raise("KeyError")
    ELSE Ok(WithCoords(Where(l2, FilterMask(l1b, range_filters, Len(range_filters))),
                       l1b, MaskCoords(l1b, range_filters)))

(* ---------------- processor.generate_product_on_land ------------------- *)
EmptyDs == [vars |-> <<>>, coords |-> {}, sizes |-> <<>>, attrs |-> "none"]

\* l2_land[n] = src[n]: the variable with its sizes, a coordinate if it is one
\* in src, and the coordinates of src it carries
CopyVar(l2, src, n) ==
    LET v == src.vars[n]
        set == [l2 EXCEPT
                  !.vars = [m \in (DOMAIN l2.vars) \cup {n} |->
                              IF m = n THEN v ELSE l2.vars[m]],
                  !.coords = IF n \in src.coords THEN @ \cup {n} ELSE @ \ {n},
                  !.sizes = [d \in (DOMAIN l2.sizes) \cup DimSet(v) |->
                              IF d \in DimSet(v) THEN src.sizes[d] ELSE l2.sizes[d]]]
    IN WithCoords(set, src, CoordsOf(src, n) \ {n})

\* lines 117-123: an all-NaN array over ('time',) + l2_ref[var].dims, sized by
\* the acquisition along time and by the template elsewhere, with the
\* template variable's attributes
FillVarNoTime(l2, ds_land, l2_ref, n) ==
    LET var_dims == l2_ref.vars[n].dims
    IN [l2 EXCEPT
          !.vars = [m \in (DOMAIN l2.vars) \cup {n} |->
                      IF m = n
                      THEN [dims |-> var_dims, val |-> <<NaN>>,
                            attrs |-> l2_ref.vars[n].attrs]
                      ELSE l2.vars[m]],
          !.coords = @ \ {n},
          !.sizes = [d \in (DOMAIN l2.sizes) \cup {var_dims[k] : k \in 1..Len(var_dims)} |->
                      IF d \in DOMAIN l2_ref.sizes THEN l2_ref.sizes[d] ELSE l2.sizes[d]]]
FillVar(l2, ds_land, l2_ref, n) ==
    LET var_dims == <<"time">> \o l2_ref.vars[n].dims
    IN [l2 EXCEPT
          !.vars = [m \in (DOMAIN l2.vars) \cup {n} |->
                      IF m = n
                      THEN [dims |-> var_dims,
                            val |-> [i \in 1..ds_land.sizes["time"] |-> NaN],
                            attrs |-> l2_ref.vars[n].attrs]
                      ELSE l2.vars[m]],
          !.coords = @ \ {n},
          !.sizes = [d \in (DOMAIN l2.sizes) \cup {var_dims[k] : k \in 1..Len(var_dims)} |->
                      IF d = "time" THEN ds_land.sizes["time"]
                      ELSE IF d \in DOMAIN l2_ref.sizes THEN l2_ref.sizes[d]
                      ELSE l2.sizes[d]]]

\* the loop of lines 109-123 from kept variable k on
RECURSIVE LandKept(_, _, _, _, _)
LandKept(l2_land, ds_land, l2_ref, kept_variables, k) ==
    IF k > Len(kept_variables) THEN Ok(l2_land)
    ELSE LET var == kept_variables[k]
         IN IF var \in DOMAIN ds_land.vars
            THEN LandKept(CopyVar(l2_land, ds_land, var),
                          ds_land, l2_ref, kept_variables, k + 1)
            ELSE IF var \in l2_ref.coords /\ var \notin ds_land.coords
            THEN LandKept(CopyVar(l2_land, l2_ref, var),
                          ds_land, l2_ref, kept_variables, k + 1)
            ELSE IF var \notin DOMAIN l2_ref.vars THEN Raise("KeyError")
            ELSE LandKept(FillVar(l2_land, ds_land, l2_ref, var),
                          ds_land, l2_ref, kept_variables, k + 1)

\* lines 126-129: every template coordinate that is not yet one of l2_land
RECURSIVE LandCoords(_, _, _)
LandCoords(l2_land, l2_ref, coords_to_add) ==
    IF coords_to_add = {} THEN l2_land
    ELSE LET coord == CHOOSE c \in coords_to_add : TRUE
         IN LandCoords(CopyVar(l2_land, l2_ref, coord), l2_ref, coords_to_add \ {coord})

\* model_outputs is a parameter the function never reads
generate_product_on_land(ds_land, l2_ref, model_outputs, kept_variables) ==
    LET kept == LandKept(EmptyDs, ds_land, l2_ref, kept_variables, 1)
    IN IF kept.err # "none" THEN kept
       ELSE Ok([LandCoords(kept.ds, l2_ref, l2_ref.coords \ kept.ds.coords)
                  EXCEPT !.attrs = ds_land.attrs])

(* ------------------- processor.predict_variables ---------------------- *)
\* The predictor is opaque: `model` is the widths of the tensors it returns
\* (their trailing axes).  Column j of the flattened result, at a sample
\* whose features sum to s, is (s + j) modulo OutMod; NaN when a feature is.
OutMod == 5
RECURSIVE SumSeq(_)
SumSeq(q) == IF Len(q) = 0 THEN 0 ELSE q[Len(q)] + SumSeq(SubSeq(q, 1, Len(q) - 1))

\* [r[:, i] for r in res for i in range(r.shape[-1])]: the columns, tensor
\* by tensor, as <<tensor, sub-variable>>
RECURSIVE Columns(_, _)
Columns(widths, t) ==
    IF t > Len(widths) THEN <<>>
    ELSE [i \in 1..widths[t] |-> <<t, i>>] \o Columns(widths, t + 1)

\* the values of the flattened columns over the samples of the input arrays
predict_variables(model, input_arrays, T) ==
    LET cols == Columns(model, 1)
        row(i) == [k \in 1..Len(input_arrays) |-> ValAt(input_arrays[k], i)]
    IN [j \in 1..Len(cols) |->
          [i \in 1..T |->
             IF \E k \in 1..Len(input_arrays) : row(i)[k] = NaN THEN NaN
             ELSE (SumSeq(row(i)) + j) % OutMod]]

(* ----------------- processor.generate_l2_wave_product ----------------- *)
Truthy(x) == x # 0
\* ds.land_flag.all()
LandOnlyAny(ds) ==
    \E i \in 1..Len(ds.vars["land_flag"].val) : Truthy(ds.vars["land_flag"].val[i])
LandOnly(ds) ==
    \A i \in 1..Len(ds.vars["land_flag"].val) : Truthy(ds.vars["land_flag"].val[i])

Elems(q) == {q[k] : k \in 1..Len(q)}

\* ds[kept_variables]: the listed variables and every coordinate of ds, and
\* the sizes of the dimensions they span
Subset(ds, names) ==
    LET held == names \cup ds.coords
    IN [ds EXCEPT !.vars = [m \in held |-> ds.vars[m]],
                  !.sizes = [d \in UNION {DimSet(ds.vars[m]) : m \in held} |-> ds.sizes[d]]]

\* Dataset.reset_coords(names, drop=True)
ResetCoords(ds, names) ==
    IF ~(names \subseteq DOMAIN ds.vars) THEN Raise("ValueError")
    ELSE Ok([ds EXCEPT !.vars = [m \in (DOMAIN ds.vars) \ (names \cap ds.coords) |-> ds.vars[m]],
                       !.coords = @ \ names])

\* np.concatenate(reshaped_vars, axis=1) takes arrays of one or two axes (one
\* axis is reshaped to a column) whose first axis is time; `stacked` tells
\* whether k_gp and phi_hf were stacked into one axis
Stackable(v, stacked) ==
    LET ndim == IF stacked /\ {"k_gp", "phi_hf"} \subseteq DimSet(v)
                THEN Len(v.dims) - 1 ELSE Len(v.dims)
    IN ndim \in {1, 2} /\ v.dims[1] = "time"

\* lines 28-55, from the dataset `ds` the land branch left: what the call
\* returns, and whether the predictor ran
Predict(ds, model, model_inputs, model_outputs, kept_variables) ==
    IF "cwave_params" \in Elems(model_inputs)
          /\ ~({"k_gp", "phi_hf"} \subseteq DOMAIN ds.sizes)
    THEN [r |-> Raise("ValueError"), model_runs |-> 0]
    ELSE IF ~(Elems(model_inputs) \subseteq DOMAIN ds.vars)
    THEN [r |-> Raise("KeyError"), model_runs |-> 0]
    ELSE IF \E k \in 1..Len(model_inputs) :
                ~Stackable(ds.vars[model_inputs[k]], "cwave_params" \in Elems(model_inputs))
    THEN [r |-> Raise("ValueError"), model_runs |-> 0]
    ELSE LET input_arrays == [k \in 1..Len(model_inputs) |-> ds.vars[model_inputs[k]]]
             T == ds.sizes["time"]
             res == predict_variables(model, input_arrays, T)
         IN IF Len(model_outputs) > Len(res)
            THEN [r |-> Raise("IndexError"), model_runs |-> 1]
            ELSE IF ~(Elems(kept_variables) \subseteq DOMAIN ds.vars)
            THEN [r |-> Raise("KeyError"), model_runs |-> 1]
            ELSE IF Elems(kept_variables) \cap Elems(model_outputs) # {}
            THEN [r |-> Raise("MergeError"), model_runs |-> 1]
            ELSE LET kept == Subset(ds, Elems(kept_variables))
                     merged ==
                        [kept EXCEPT
                           !.vars = [m \in (DOMAIN kept.vars) \cup Elems(model_outputs) |->
                                       IF m \in DOMAIN kept.vars THEN kept.vars[m]
                                       ELSE LET i == CHOOSE k \in 1..Len(model_outputs) :
                                                        model_outputs[k] = m
                                            IN TimeVar(res[i], "")],
                           !.sizes = [d \in (DOMAIN kept.sizes) \cup {"time"} |-> ds.sizes[d]]]
                 IN [r |-> ResetCoords(merged, {"line", "sample"}), model_runs |-> 1]

\* l2_ref_file is what xr.open_dataset('l2_ref.nc') finds in the working
\* directory.  The result records, beside the product or the error, what
\* the call did: whether it opened the template, whether it called
\* generate_product_on_land, how often the predictor ran and on which dataset.
generate_l2_wave_product(ds, model, model_inputs, model_outputs, kept_variables, l2_ref_file) ==
    LET none == [template_opened |-> FALSE, land_called |-> FALSE,
                 model_runs |-> 0, inputs_from |-> "none"]
    IN IF "land_flag" \notin DOMAIN ds.vars
       THEN none @@ Raise("AttributeError")
       ELSE IF LandOnly(ds)
       THEN IF ~l2_ref_file.exists
            THEN [none EXCEPT !.template_opened = TRUE] @@ Raise("FileNotFoundError")
            ELSE LET land == generate_product_on_land(ds, l2_ref_file.ds,
                                                      model_outputs, kept_variables)
                     opened == [none EXCEPT !.template_opened = TRUE, !.land_called = TRUE]
                 IN IF land.err # "none" THEN opened @@ land
                    ELSE LET p == Predict(land.ds, model, model_inputs,
                                          model_outputs, kept_variables)
                         IN [opened EXCEPT !.model_runs = p.model_runs,
                                           !.inputs_from = "template product"] @@ p.r
       ELSE LET p == Predict(ds, model, model_inputs, model_outputs, kept_variables)
            IN [none EXCEPT !.model_runs = p.model_runs, !.inputs_from = "acquisition"] @@ p.r

(* ----------------------- utils.add_quality_indices -------------------- *)
\* np.select([c < t1, (c >= t1) & (c < t2), c >= t2], [1, 2, 3], default=0):
\* the first condition that holds decides
SelectClosedBelow(c, t1, t2) ==
    IF Le(c, t1) THEN 1
    ELSE IF Ge(c, t1) /\ Lt(c, t2) THEN 2
    ELSE IF Ge(c, t2) THEN 3
    ELSE 0
Select(c, t1, t2) ==
    IF Lt(c, t1) THEN 1
    ELSE IF Ge(c, t1) /\ Lt(c, t2) THEN 2
    ELSE IF Ge(c, t2) THEN 3
    ELSE 0

\* ds[var_name] = (confidence.dims, quality); ds[var_name].attrs = attributes
QualityVar(confidence, entry) ==
    [dims |-> confidence.dims,
     val |-> [i \in 1..Len(confidence.val) |->
                Select(confidence.val[i], entry.thresholds[1], entry.thresholds[2])],
     attrs |-> entry.attributes]

SetVar(ds, n, v) ==
    [ds EXCEPT !.vars = [m \in (DOMAIN ds.vars) \cup {n} |->
                            IF m = n THEN v ELSE ds.vars[m]]]
\* Dataset.drop_vars(n), n a variable of ds
DropVar(ds, n) ==
    [ds EXCEPT !.vars = [m \in (DOMAIN ds.vars) \ {n} |-> ds.vars[m]],
               !.coords = @ \ {n}]

\* The Quality Spec is the dict quality_variables: its key drop_confidence
\* ("absent" when the dict has no such key) and its other items, in order,
\* as `entries`.  QvNone is config.get('quality_variables') of a
\* configuration without that key.
QvNone == [none |-> TRUE, drop_confidence |-> "absent", entries |-> <<>>]

\* quality_variables.pop('drop_confidence', None): the value, and the dict
\* without the key
PopDrop(qv) == [qv EXCEPT !.drop_confidence = "absent"]

\* the loop of lines 236-249 from entry k on; raises at the first entry
\* whose input is not (or no longer) a variable of ds
RECURSIVE QualityLoop(_, _, _, _)
QualityLoop(ds, entries, k, drop) ==
    IF k > Len(entries) THEN Ok(ds)
    ELSE IF entries[k].input \notin DOMAIN ds.vars THEN Raise("KeyError")
    ELSE LET confidence == ds.vars[entries[k].input]
             added == SetVar(ds, entries[k].name, QualityVar(confidence, entries[k]))
         IN QualityLoop(IF drop THEN DropVar(added, entries[k].input) ELSE added,
                        entries, k + 1, drop)

\* the result, and the dict as the call leaves it for its next user
add_quality_indices(ds, quality_variables) ==
    IF quality_variables.none
    THEN [err |-> "AttributeError", ds |-> NoDs, quality_variables |-> quality_variables]
    ELSE LET drop == quality_variables.drop_confidence = "true"
             r == QualityLoop(ds, quality_variables.entries, 1, drop)
         IN [err |-> r.err, ds |-> r.ds, quality_variables |-> PopDrop(quality_variables)]

(* ---------------------- utils.apply_preprocessing --------------------- *)
\* Dataset.drop_sel(time=labels), the labels being sample positions
DropSel(ds, labels) ==
    IF ~(labels \subseteq 1..ds.sizes["time"]) THEN Raise("KeyError")
    ELSE LET mask == [i \in 1..ds.sizes["time"] |-> i \notin labels]
         IN Ok([ds EXCEPT !.vars = [n \in DOMAIN ds.vars |->
                                      IF HasTime(ds.vars[n])
                                      THEN [ds.vars[n] EXCEPT !.val = Kept(@, mask)]
                                      ELSE ds.vars[n]],
                          !.sizes = [d \in DOMAIN ds.sizes |->
                                       IF d = "time"
                                       THEN Cardinality({i \in 1..Len(mask) : mask[i]})
                                       ELSE ds.sizes[d]]])

\* FUNCTION_MAP holds the one name 'xr.Dataset.drop_sel'
apply_preprocessing(ds, preprocessing_config) ==
    IF preprocessing_config.none THEN Ok(ds)
    ELSE IF preprocessing_config.function # "xr.Dataset.drop_sel" THEN Raise("KeyError")
    ELSE DropSel(ds, preprocessing_config.parameters)

(* --------------------------- utils.format_l2 -------------------------- *)
\* Dataset.rename({old: new})
Rename(ds, old, new) ==
    [ds EXCEPT !.vars = [m \in ((DOMAIN ds.vars) \ {old}) \cup {new} |->
                            IF m = new THEN ds.vars[old] ELSE ds.vars[m]],
               !.coords = IF old \in @ THEN (@ \ {old}) \cup {new} ELSE @]
SetAttrs(ds, n, a) == [ds EXCEPT !.vars[n].attrs = a]

\* `attributes` is the set of the variables the configuration gives
\* attributes for; cycle_ok tells whether input_path[43:46] and [47:52] are
\* digits; the acquisition's attrs "l1b" hold time_coverage_start and _end
format_l2(ds, cycle_ok, attributes) ==
    IF ~(attributes \subseteq DOMAIN ds.vars) THEN Raise("KeyError")
    ELSE IF ~({"longitude", "latitude"} \subseteq DOMAIN ds.vars) THEN Raise("ValueError")
    ELSE IF "pol" \notin DOMAIN ds.vars THEN Raise("AttributeError")
    ELSE IF ~cycle_ok THEN Raise("ValueError")
    ELSE IF ds.attrs # "l1b" THEN Raise("KeyError")
    ELSE LET named == [ds EXCEPT !.vars = [m \in DOMAIN ds.vars |->
                                            IF m \in attributes
                                            THEN [ds.vars[m] EXCEPT !.attrs = "cf"]
                                            ELSE ds.vars[m]]]
             renamed == Rename(Rename(named, "longitude", "lon"), "latitude", "lat")
         IN Ok([SetAttrs(SetAttrs(SetAttrs(renamed, "lon", "longitude"),
                                  "lat", "latitude"), "pol", "polarization")
                  EXCEPT !.attrs = "global_attributes"])

(* ----------------- specification: apply_range_filters ----------------- *)
Lim == 0..MaxVal
\* the Range-Filter Specs tried: none, one on x, one on incidence, both, and
\* one naming a variable the acquisition does not hold
FilterSpecs ==
    LET FX == [var : {"x"}, min : Lim, max : Lim]
        FI == [var : {"incidence"}, min : {0}, max : Lim]
    IN {<<>>} \cup {<<fx>> : fx \in FX} \cup {<<fi>> : fi \in FI}
       \cup {<<f[1], f[2]>> : f \in FX \X FI}
       \cup {<<[var |-> "sigma0", min |-> 0, max |-> MaxVal]>>}

\* an acquisition with the two measured variables the filters read
FilterL1b(xs, ys) ==
    [vars |-> [n \in {"x", "incidence", "time", "line", "sample"} |->
                 IF n = "x" THEN TimeVar(xs, "l1b")
                 ELSE IF n = "incidence" THEN TimeVar(ys, "l1b")
                 ELSE TimeVar([i \in 1..Len(xs) |-> 0], n)],
     coords |-> {"time", "line", "sample"},
     sizes |-> [d \in {"time"} |-> Len(xs)],
     attrs |-> "l1b"]
\* a product over the same samples: a predicted variable, a variable without
\* a time axis, and the time coordinate
FilterL2(ss) ==
    [vars |-> [n \in {"swh", "pol", "time"} |->
                 IF n = "swh" THEN TimeVar(ss, "swh")
                 ELSE IF n = "pol" THEN [dims |-> <<>>, val |-> <<0>>, attrs |-> "pol"]
                 ELSE TimeVar([i \in 1..Len(ss) |-> 0], "time")],
     coords |-> {"time"},
     sizes |-> [d \in {"time"} |-> Len(ss)],
     attrs |-> "l2"]

InitFilter ==
    /\ pc = "call"
    /\ \E t \in 0..MaxTime :
         \E xs \in [1..t -> Val], s1 \in {0, NaN}, fs \in FilterSpecs :
            call = [fn |-> "apply_range_filters",
                    l1b |-> FilterL1b(xs, [i \in 1..t |-> (i - 1) % (MaxVal + 1)]),
                    l2 |-> FilterL2([i \in 1..t |-> IF i = 1 THEN s1 ELSE i % (MaxVal + 1)]),
                    range_filters |-> fs]
    /\ ret = <<>>
    /\ MainIdle

\* once: asa_l2 = apply_range_filters(asa_l1b, asa_l2, range_filters)
FilterOnce ==
    /\ pc = "call"
    /\ pc' = "once"
    /\ ret' = <<apply_range_filters(call.l1b, call.l2, call.range_filters)>>
    /\ UNCHANGED <<call, mainVars>>

\* and a second time on the first result, with the same acquisition and spec
FilterTwice ==
    /\ pc = "once"
    /\ ret[1].err = "none"
    /\ pc' = "twice"
    /\ ret' = Append(ret, apply_range_filters(call.l1b, ret[1].ds, call.range_filters))
    /\ UNCHANGED <<call, mainVars>>

NextFilter == FilterOnce \/ FilterTwice
SpecFilter == InitFilter /\ [][NextFilter]_vars

\* sample i of the original acquisition lies in every configured range
InRange(l1b, fs, i) ==
    \A k \in 1..Len(fs) :
        LET x == ValAt(l1b.vars[fs[k].var], i)
        IN x # NaN /\ fs[k].min <= x /\ x <= fs[k].max

\* C6: a sample whose acquisition values all lie in [min, max] (inclusive)
\* keeps every data variable of the product; at every other sample every
\* data variable is NaN; coordinates are untouched; with no filter the
\* product is returned as it was.
RangeFilterMasksOutOfRange ==
    (pc \in {"once", "twice"} /\ ret[1].err = "none") =>
        LET fs == call.range_filters
            out == ret[1].ds
        IN /\ Len(fs) = 0 => out = call.l2
           /\ DataVars(out) = DataVars(call.l2)
           /\ \A n \in call.l2.coords : out.vars[n] = call.l2.vars[n]
           /\ Len(fs) > 0 =>
                \A n \in DataVars(call.l2) : \A i \in 1..call.l1b.sizes["time"] :
                    out.vars[n].val[i] =
                        IF InRange(call.l1b, fs, i) THEN ValAt(call.l2.vars[n], i)
                        ELSE NaN

\* the 3-sample scenario: x below, inside and above the range [1, 1]
RangeFilterScenario ==
    /\ pc = "once"
    /\ call.range_filters = <<[var |-> "x", min |-> 1, max |-> 1]>>
    /\ call.l1b.vars["x"].val = <<0, 1, 2>>
    /\ call.l2.vars["swh"].val = <<0, 2, 0>>
    /\ ret[1].err = "none"
    /\ ret[1].ds.vars["swh"].val = <<NaN, 2, NaN>>

\* C7: filtering the filtered product again, with the same acquisition and
\* the same spec, gives the filtered product.
RangeFilterIdempotent ==
    pc = "twice" => ret[2] = ret[1]

\* a second pass over a product the first pass did mask
RangeFilterTwiceMasked ==
    /\ pc = "twice"
    /\ ret[2].err = "none"
    /\ \E i \in 1..call.l1b.sizes["time"] :
         /\ ~InRange(call.l1b, call.range_filters, i)
         /\ call.l2.vars["swh"].val[i] # NaN
         /\ ret[2].ds.vars["swh"].val[i] = NaN

(* ----------------- specification: add_quality_indices ----------------- *)
Conf == (0..MaxConf) \cup {NaN}
Ramp(t) == [i \in 1..t |-> i - 1]
\* confidence arrays: 0, 1, 2, ... with at most one sample replaced
ConfArrays ==
    {[i \in 1..t |-> IF i = p THEN c ELSE i - 1] :
        t \in 0..MaxSamples, p \in 1..MaxSamples, c \in Conf}

\* a product with a predicted variable and two confidence variables
QualityL2(cs) ==
    [vars |-> [n \in {"swh", "swh_conf", "t0m1_conf", "time"} |->
                 IF n = "swh" THEN TimeVar(Ramp(Len(cs)), "swh")
                 ELSE IF n = "swh_conf" THEN TimeVar(cs, "conf")
                 ELSE IF n = "t0m1_conf" THEN TimeVar(Ramp(Len(cs)), "conf")
                 ELSE TimeVar([i \in 1..Len(cs) |-> 0], "time")],
     coords |-> {"time"},
     sizes |-> [d \in {"time"} |-> Len(cs)],
     attrs |-> "l2"]

\* Quality Specs: no entry; one entry on swh_conf with any two thresholds;
\* a second entry on the same input, on another one, or on a variable the
\* product does not hold
QualitySpecs ==
    LET E1 == [name : {"swh_quality"}, input : {"swh_conf"},
               thresholds : (0..MaxConf) \X (0..MaxConf), attributes : {"q1"}]
        E2 == [name : {"t0m1_quality"}, input : {"swh_conf", "t0m1_conf", "hs_conf"},
               thresholds : {<<1, MaxConf - 1>>}, attributes : {"q2"}]
    IN {[none |-> FALSE, drop_confidence |-> d, entries |-> es] :
           d \in {"absent", "true", "false"},
           es \in {<<>>} \cup {<<e>> : e \in E1} \cup {<<e[1], e[2]>> : e \in E1 \X E2}}
       \cup {QvNone}

InitQuality ==
    /\ pc = "call"
    /\ \E cs \in ConfArrays, qv \in QualitySpecs :
          call = [fn |-> "add_quality_indices", ds |-> QualityL2(cs),
                  quality_variables |-> qv]
    /\ ret = <<>>
    /\ MainIdle

Classify ==
    /\ pc = "call"
    /\ call.fn = "add_quality_indices"
    /\ pc' = "done"
    /\ ret' = <<add_quality_indices(call.ds, call.quality_variables)>>
    /\ UNCHANGED <<call, mainVars>>

NextQuality == Classify
SpecQuality == InitQuality /\ [][NextQuality]_vars

\* C5: with thresholds t1 < t2 every sample gets class 1 below t1, class 2
\* from t1 (included) to t2 (excluded), class 3 from t2 (included) on, and
\* class 0 where the confidence is NaN.
QualityClassBoundaries ==
    (pc = "done" /\ call.fn = "add_quality_indices" /\ ret[1].err = "none") =>
        \A k \in 1..Len(call.quality_variables.entries) :
            LET e == call.quality_variables.entries[k]
                t1 == e.thresholds[1]
                t2 == e.thresholds[2]
                c == call.ds.vars[e.input].val
                q == ret[1].ds.vars[e.name]
            IN t1 < t2 =>
                 /\ q.dims = <<"time">>
                 /\ q.attrs = e.attributes
                 /\ \A i \in 1..Len(c) :
                       q.val[i] = IF c[i] = NaN THEN 0
                                  ELSE IF c[i] < t1 THEN 1
                                  ELSE IF c[i] < t2 THEN 2
                                  ELSE 3

\* the scenario (0.3, 0.7) over [0.1, 0.3, 0.5, 0.7, 0.9], in tenths rounded down
\* to the ranks 0..4 with thresholds (1, 3)
QualityScenario ==
    /\ pc = "done"
    /\ call.fn = "add_quality_indices"
    /\ ret[1].err = "none"
    /\ call.ds.vars["swh_conf"].val = <<0, 1, 2, 3, 4>>
    /\ Len(call.quality_variables.entries) = 1
    /\ call.quality_variables.entries[1].thresholds = <<1, 3>>
    /\ ret[1].ds.vars["swh_quality"].val = <<1, 2, 2, 3, 3>>

\* C4 as claimed: with the drop flag set and two entries on the same
\* confidence input the call completes, holds both quality variables and
\* no longer holds the input.
SharedInputDroppedOnce ==
    (/\ pc = "done"
     /\ call.fn = "add_quality_indices"
     /\ call.quality_variables.drop_confidence = "true"
     /\ Len(call.quality_variables.entries) = 2
     /\ call.quality_variables.entries[1].input = call.quality_variables.entries[2].input)
    => /\ ret[1].err = "none"
       /\ {"swh_quality", "t0m1_quality"} \subseteq DOMAIN ret[1].ds.vars
       /\ "swh_conf" \notin DOMAIN ret[1].ds.vars

(* ------------ specifications: processor.py's two functions ------------ *)
\* An acquisition: land_flag and the coordinates time, line, sample always;
\* the variables named in `present` besides.
GenL1b(flags, present) ==
    LET T == Len(flags)
        names == {"land_flag", "time", "line", "sample"} \cup present
    IN [vars |-> [n \in names |->
                    IF n = "land_flag" THEN TimeVar(flags, "l1b")
                    ELSE IF n = "sigma0" THEN TimeVar([i \in 1..T |-> i % 2], "l1b")
                    ELSE IF n = "cwave_params"
                    THEN [dims |-> <<"time", "k_gp", "phi_hf">>,
                          val |-> [i \in 1..T |-> 1], attrs |-> "l1b"]
                    ELSE IF n = "pol" THEN [dims |-> <<>>, val |-> <<0>>, attrs |-> "l1b"]
                    ELSE TimeVar([i \in 1..T |-> 0], "l1b")],
        coords |-> {"time", "line", "sample"} \cup (present \cap {"longitude", "latitude", "pol"}),
        sizes |-> [d \in {"time"} \cup (IF "cwave_params" \in present
                                        THEN {"k_gp", "phi_hf"} ELSE {}) |->
                     IF d = "time" THEN T ELSE 2],
        attrs |-> "l1b"]

\* The template, as generate_reference_l2 leaves one: a product of the ocean
\* path at a single sample (no time axis), values masked, coordinates reset,
\* attributes cleared.  `held` are its data variables.
RefL2(held) ==
    [vars |-> [n \in held \cup {"time", "longitude", "latitude", "pol"} |->
                 IF n = "cwave_params"
                 THEN [dims |-> <<"k_gp", "phi_hf">>, val |-> <<NaN>>, attrs |-> "ref"]
                 ELSE IF n \in {"time", "longitude", "latitude", "pol"}
                 THEN [dims |-> <<>>, val |-> <<0>>, attrs |-> "ref"]
                 ELSE [dims |-> <<>>, val |-> <<NaN>>, attrs |-> "ref"]],
     coords |-> {"time", "longitude", "latitude", "pol"},
     sizes |-> [d \in (IF "cwave_params" \in held THEN {"k_gp", "phi_hf"} ELSE {}) |-> 2],
     attrs |-> "none"]

RefFiles ==
    {[exists |-> FALSE, ds |-> EmptyDs],
     [exists |-> TRUE, ds |-> RefL2({"sigma0", "cwave_params", "swh", "t0m1"})],
     [exists |-> TRUE, ds |-> RefL2({"sigma0", "swh"})]}

\* the tensors a predictor returns: up to MaxColumns columns in all
Predictors == {w \in SeqsUpTo(1..MaxColumns, MaxColumns) : Len(w) > 0 /\ SumSeq(w) <= MaxColumns}
OutputNames == <<"swh", "t0m1", "swh_conf", "t0m1_conf", "wsp", "wsp_conf">>
Outputs == {SubSeq(OutputNames, 1, n) : n \in 1..MaxOutputs}

InitGenerate ==
    /\ pc = "call"
    /\ \E t \in 1..MaxTime :
         \E flags \in [1..t -> {0, 1}], present \in SUBSET {"sigma0", "cwave_params"},
            ref \in RefFiles, model \in Predictors, outs \in Outputs,
            ins \in {<<"sigma0">>, <<"cwave_params">>, <<"sigma0", "cwave_params">>},
            kept \in {<<>>, <<"sigma0">>, <<"longitude", "sigma0", "cwave_params">>} :
            call = [fn |-> "generate_l2_wave_product",
                    ds |-> GenL1b(flags, present \cup {"longitude", "pol"}),
                    model |-> model, model_inputs |-> ins, model_outputs |-> outs,
                    kept_variables |-> kept, l2_ref_file |-> ref]
    /\ ret = <<>>
    /\ MainIdle

Generate ==
    /\ pc = "call"
    /\ call.fn = "generate_l2_wave_product"
    /\ pc' = "done"
    /\ ret' = <<generate_l2_wave_product(call.ds, call.model, call.model_inputs,
                    call.model_outputs, call.kept_variables, call.l2_ref_file)>>
    /\ UNCHANGED <<call, mainVars>>

NextGenerate == Generate
SpecGenerate == InitGenerate /\ [][NextGenerate]_vars

GenDone == pc = "done" /\ call.fn = "generate_l2_wave_product"
AllLand(ds) == \A i \in 1..ds.sizes["time"] : ds.vars["land_flag"].val[i] = 1

\* C1 as claimed: an acquisition whose land_flag is true at every sample gets
\* its product from the template, and the predictor never runs for it.
LandOnlyNeverInfers ==
    (GenDone /\ AllLand(call.ds) /\ call.l2_ref_file.exists)
    => /\ ret[1].model_runs = 0
       /\ ret[1].land_called
       /\ LET land == generate_product_on_land(call.ds, call.l2_ref_file.ds,
                          call.model_outputs, call.kept_variables)
          IN [err |-> ret[1].err, ds |-> ret[1].ds] = land

\* C2: an acquisition with a sample whose land_flag is false goes the ocean
\* way only: the template is not opened, generate_product_on_land is not
\* called, the features are read from the acquisition, and a returned
\* product comes with exactly one run of the predictor.
OceanPathOnly ==
    (GenDone /\ \E i \in 1..call.ds.sizes["time"] : call.ds.vars["land_flag"].val[i] = 0)
    => /\ ~ret[1].template_opened
       /\ ~ret[1].land_called
       /\ ret[1].inputs_from = "acquisition"
       /\ ret[1].err = "none" => ret[1].model_runs = 1
       /\ Elems(call.model_inputs) \subseteq DOMAIN call.ds.vars
             /\ (\A k \in 1..Len(call.model_inputs) :
                    Stackable(call.ds.vars[call.model_inputs[k]],
                              "cwave_params" \in Elems(call.model_inputs)))
          => ret[1].model_runs = 1

\* an acquisition that is partly land, and a product predicted for it
MixedAcquisitionPredicted ==
    /\ GenDone
    /\ call.ds.vars["land_flag"].val = <<1, 0, 1>>
    /\ call.l2_ref_file.exists
    /\ ret[1].err = "none"
    /\ ret[1].model_runs = 1
    /\ "swh" \in DOMAIN ret[1].ds.vars

\* C9 as claimed: whenever the declared output names and the predictor's
\* columns differ in number, no product is returned.
ArityMismatchFails ==
    (GenDone /\ ret[1].model_runs = 1
       /\ Len(call.model_outputs) # Len(Columns(call.model, 1)))
    => ret[1].err # "none"

(* --------------- specification: generate_product_on_land -------------- *)
KeptNames == {"longitude", "sigma0", "cwave_params", "pol", "nv"}
KeptLists ==
    {k \in SeqsUpTo(KeptNames, MaxKept) : \A i, j \in 1..Len(k) : i # j => k[i] # k[j]}

InitLand ==
    /\ pc = "call"
    /\ \E t \in 0..MaxTime, present \in SUBSET {"longitude", "sigma0", "cwave_params", "pol"},
          ref \in {f \in RefFiles : f.exists}, kept \in KeptLists :
          call = [fn |-> "generate_product_on_land",
                  ds_land |-> GenL1b([i \in 1..t |-> 1], present),
                  l2_ref |-> ref.ds,
                  model_outputs |-> <<"swh">>,
                  kept_variables |-> kept]
    /\ ret = <<>>
    /\ MainIdle

OnLand ==
    /\ pc = "call"
    /\ call.fn = "generate_product_on_land"
    /\ pc' = "done"
    /\ ret' = <<generate_product_on_land(call.ds_land, call.l2_ref,
                    call.model_outputs, call.kept_variables)>>
    /\ UNCHANGED <<call, mainVars>>

NextLand == OnLand
SpecLand == InitLand /\ [][NextLand]_vars

LandDone == pc = "done" /\ call.fn = "generate_product_on_land"
\* variable q of product l2 is all NaN, over time (the acquisition's count)
\* and then the dimensions `trailing`, with their sizes from `sizes`
NaNFilled(l2, q, T, trailing, sizes) ==
    /\ l2.vars[q].dims = <<"time">> \o trailing
    /\ l2.vars[q].val = [i \in 1..T |-> NaN]
    /\ l2.sizes["time"] = T
    /\ \A k \in 1..Len(trailing) : l2.sizes[trailing[k]] = sizes[trailing[k]]
\* what a kept variable q must be in the land product
KeptAsClaimed(l2, ds_land, l2_ref, q) ==
    IF q \in DOMAIN ds_land.vars THEN l2.vars[q] = ds_land.vars[q]
    ELSE IF q \in l2_ref.coords /\ q \notin ds_land.coords THEN l2.vars[q] = l2_ref.vars[q]
    ELSE IF q \in DOMAIN l2_ref.vars
    THEN /\ NaNFilled(l2, q, ds_land.sizes["time"], l2_ref.vars[q].dims, l2_ref.sizes)
         /\ l2.vars[q].attrs = l2_ref.vars[q].attrs
    ELSE NaNFilled(l2, q, ds_land.sizes["time"], <<>>, <<>>)

Kinds == {"ocean", "land", "absent", "corrupt", "misnamed", "uncycled",
          "unwritable", "processed"}
FileDs(kind) ==
    GenL1b(IF kind = "land" THEN <<1, 1>> ELSE <<0, 1>>,
           {"longitude", "latitude", "pol", "sigma0"})
TheModel == <<2>>
TheTemplate == [exists |-> TRUE, ds |-> RefL2({"sigma0", "swh", "swh_conf"})]

\* The try block of lines 74-92, stage by stage. A result is the exception
\* the block ended with ("none": it ran to its end), the product written,
\* `passed`: the drop_confidence key of the Quality Spec handed to
\* add_quality_indices ("n/a" when the block raised before), and
\* quality_variables: the configuration's Quality Spec after the block.
Stopped(e, cfg) ==
    [err |-> e, ds |-> NoDs, passed |-> "n/a",
     quality_variables |-> cfg.quality_variables]
Ended(e, d, cfg, qv) ==
    [err |-> e, ds |-> d,
     passed |-> IF cfg.quality_variables.none THEN "None"
                ELSE cfg.quality_variables.drop_confidence,
     quality_variables |-> qv]
\* lines 87-92: the result of reset_coords, then save_l2
Written(kind, cfg, qv, rst) ==
    IF rst.err # "none" THEN Ended(rst.err, NoDs, cfg, qv)
    ELSE IF kind = "unwritable" THEN Ended("OSError", NoDs, cfg, qv)
    ELSE Ended("none", rst.ds, cfg, qv)
\* lines 86-87: the result of add_quality_indices, then reset_coords
Qualified(kind, cfg, qua) ==
    IF qua.err # "none" THEN Ended(qua.err, NoDs, cfg, qua.quality_variables)
    ELSE Written(kind, cfg, qua.quality_variables,
                 ResetCoords(qua.ds, {"line", "sample"}))
\* lines 85-86: the result of format_l2, then add_quality_indices
Formatted(kind, cfg, fmt) ==
    IF fmt.err # "none" THEN Stopped(fmt.err, cfg)
    ELSE Qualified(kind, cfg, add_quality_indices(fmt.ds, cfg.quality_variables))
\* lines 84-85: the result of apply_range_filters, then format_l2
Filtered(kind, cfg, flt) ==
    IF flt.err # "none" THEN Stopped(flt.err, cfg)
    ELSE Formatted(kind, cfg, format_l2(flt.ds, kind # "uncycled", cfg.attributes))
\* lines 77-84: the result of generate_l2_wave_product, then apply_range_filters
Generated(kind, cfg, l1b, gen) ==
    IF gen.err # "none" THEN Stopped(gen.err, cfg)
    ELSE Filtered(kind, cfg, apply_range_filters(l1b, gen.ds, cfg.range_filters))
\* lines 76-83: the result of apply_preprocessing, then generate_l2_wave_product
Preprocessed(kind, cfg, pre) ==
    IF pre.err # "none" THEN Stopped(pre.err, cfg)
    ELSE Generated(kind, cfg, pre.ds,
                   generate_l2_wave_product(pre.ds, TheModel, cfg.inputs, cfg.outputs,
                                            cfg.kept_variables, TheTemplate))
\* lines 75-76: open_dataset, then apply_preprocessing
Process(kind, cfg) ==
    IF kind = "corrupt" THEN Stopped("OSError", cfg)
    ELSE Preprocessed(kind, cfg, apply_preprocessing(FileDs(kind), cfg.preprocessing))

\* where the loop goes after the except clause of lines 94-96
AfterErrorRaise(i) == [pc |-> "crashed", path_idx |-> i]
AfterError(i) == [pc |-> "loop", path_idx |-> i + 1]

Entry(i, outcome, err, passed) ==
    [path |-> i, outcome |-> outcome, err |-> err, passed |-> passed]

\* Quality Specs of the configuration file
MainQuality ==
    LET e1(th) == [name |-> "swh_quality", input |-> "swh_conf", thresholds |-> th,
                   attributes |-> "q1"]
        e2 == [name |-> "swh_quality_2", input |-> "swh_conf", thresholds |-> <<2, 3>>,
               attributes |-> "q2"]
    IN {QvNone,
        [none |-> FALSE, drop_confidence |-> "absent", entries |-> <<e1(<<1, 3>>)>>],
        [none |-> FALSE, drop_confidence |-> "false", entries |-> <<e1(<<1, 3>>)>>],
        [none |-> FALSE, drop_confidence |-> "true", entries |-> <<e1(<<1, 3>>)>>],
        [none |-> FALSE, drop_confidence |-> "true", entries |-> <<e1(<<3, 1>>)>>],
        [none |-> FALSE, drop_confidence |-> "true", entries |-> <<e1(<<1, 3>>), e2>>]}
NoPreprocessing == [none |-> TRUE, function |-> "", parameters |-> {}]
DropFirst == [none |-> FALSE, function |-> "xr.Dataset.drop_sel", parameters |-> {1}]
Unmapped == [none |-> FALSE, function |-> "xr.Dataset.sel", parameters |-> {1}]
TheQuality ==
    [none |-> FALSE, drop_confidence |-> "true",
     entries |-> <<[name |-> "swh_quality", input |-> "swh_conf",
                    thresholds |-> <<1, 3>>, attributes |-> "q1"]>>]
TheFilter == <<[var |-> "sigma0", min |-> 0, max |-> 0]>>
Config(pp, rf, qv) ==
    [preprocessing |-> pp, inputs |-> <<"sigma0">>,
     outputs |-> <<"swh", "swh_conf">>, kept_variables |-> <<"sigma0">>,
     attributes |-> {"swh"}, range_filters |-> rf, quality_variables |-> qv]
\* the configuration files tried: every Quality Spec with the range filter;
\* the usual Quality Spec without range filter, with a preprocessing that
\* drops the first sample, and with one FUNCTION_MAP does not know
Configs ==
    {Config(NoPreprocessing, TheFilter, qv) : qv \in MainQuality}
    \cup {Config(NoPreprocessing, <<>>, TheQuality),
          Config(DropFirst, TheFilter, TheQuality),
          Config(Unmapped, TheFilter, TheQuality)}

\* A listing file of one line is read by np.loadtxt as a 0-d array; an
\* input path that is no .txt file is a listing of that one path.
InitMain ==
    /\ pc = "start"
    /\ call = [fn |-> "main"]
    /\ ret = <<>>
    /\ \E l \in SeqsUpTo(Kinds, MaxListing), txt \in BOOLEAN, ow \in BOOLEAN :
          /\ Len(l) # 1 => txt
          /\ listing = l
          /\ args = [input_txt |-> txt, overwrite |-> ow]
          /\ outputs = [i \in 1..Len(l) |->
                          IF l[i] = "processed" THEN "old" ELSE "none"]
    /\ yaml \in Configs
    /\ config = <<>>
    /\ path_idx = 0
    /\ log = <<>>

\* lines 44-58: the listing, the configuration and the model are loaded
Load ==
    /\ pc = "start"
    /\ config' = yaml
    /\ IF args.input_txt /\ Len(listing) = 1
       THEN pc' = "crashed" /\ path_idx' = 0
       ELSE pc' = "loop" /\ path_idx' = 1
    /\ UNCHANGED <<call, ret, args, yaml, listing, outputs, log>>

InLoop == pc = "loop" /\ path_idx \in 1..Len(listing)

\* lines 61-63
NotFound ==
    /\ InLoop
    /\ listing[path_idx] = "absent"
    /\ log' = Append(log, Entry(path_idx, "not found", "none", "n/a"))
    /\ path_idx' = path_idx + 1
    /\ UNCHANGED <<pc, call, ret, args, yaml, config, listing, outputs>>

\* line 65: get_output_path raises outside the try block
NameError ==
    /\ InLoop
    /\ listing[path_idx] = "misnamed"
    /\ log' = Append(log, Entry(path_idx, "crashed", "ValueError", "n/a"))
    /\ pc' = "crashed"
    /\ UNCHANGED <<call, ret, args, yaml, config, listing, path_idx, outputs>>

\* lines 67-71
AlreadyThere ==
    /\ InLoop
    /\ listing[path_idx] \notin {"absent", "misnamed"}
    /\ outputs[path_idx] # "none" /\ ~args.overwrite
    /\ log' = Append(log, Entry(path_idx, "exists", "none", "n/a"))
    /\ path_idx' = path_idx + 1
    /\ UNCHANGED <<pc, call, ret, args, yaml, config, listing, outputs>>

Attempted ==
    /\ InLoop
    /\ listing[path_idx] \notin {"absent", "misnamed"}
    /\ outputs[path_idx] = "none" \/ args.overwrite

\* lines 73-92: the try block runs to its end
Saved ==
    /\ Attempted
    /\ LET p == Process(listing[path_idx], config)
       IN /\ p.err = "none"
          /\ config' = [config EXCEPT !.quality_variables = p.quality_variables]
          /\ outputs' = [outputs EXCEPT ![path_idx] = p.ds]
          /\ log' = Append(log, Entry(path_idx, "saved", "none", p.passed))
    /\ path_idx' = path_idx + 1
    /\ UNCHANGED <<pc, call, ret, args, yaml, listing>>

\* lines 94-96: the try block raised
Failed ==
    /\ Attempted
    /\ LET p == Process(listing[path_idx], config)
       IN /\ p.err # "none"
          /\ config' = [config EXCEPT !.quality_variables = p.quality_variables]
          /\ log' = Append(log, Entry(path_idx, "error", p.err, p.passed))
    /\ pc' = AfterError(path_idx).pc
    /\ path_idx' = AfterError(path_idx).path_idx
    /\ UNCHANGED <<call, ret, args, yaml, listing, outputs>>

\* the for loop is exhausted
Finish ==
    /\ pc = "loop"
    /\ path_idx > Len(listing)
    /\ pc' = "done"
    /\ UNCHANGED <<call, ret, mainVars>>

Next == Load \/ NotFound \/ NameError \/ AlreadyThere \/ Saved \/ Failed \/ Finish
Spec == InitMain /\ [][Next]_vars

\* the drop_confidence key of a Quality Spec as add_quality_indices meets it
DropKey(qv) == IF qv.none THEN "None" ELSE qv.drop_confidence
Failure(e) == e.outcome \in {"not found", "error"}

\* C3: a failure on one acquisition (file not found, or an exception out of
\* the try block: preprocessing, generation, range filtering, formatting,
\* quality classification, saving) does not abort the batch. The log holds
\* one entry per acquisition visited, in listing order and none twice; after
\* any entry but the raise of get_output_path the loop stands at the next
\* path; the run crashes only on a one-line listing file or on that raise;
\* and a run that ends has visited the whole listing.
BatchSurvivesFailures ==
    /\ \A k \in 1..Len(log) : log[k].path = k
    /\ \A k \in 1..Len(log) :
          /\ listing[k] = "absent" => log[k].outcome = "not found"
          /\ listing[k] \in {"corrupt", "uncycled", "unwritable"}
                => log[k].outcome \in {"error", "exists"}
          /\ Failure(log[k]) /\ k < Len(log) => log[k + 1].path = k + 1
    /\ pc = "loop" => path_idx = Len(log) + 1
    /\ pc = "done" => Len(log) = Len(listing)
    /\ pc = "crashed" =>
          \/ Len(log) = 0 /\ args.input_txt /\ Len(listing) = 1
          \/ Len(log) > 0 /\ log[Len(log)].outcome = "crashed"
                /\ listing[Len(log)] = "misnamed"

\* a run over two acquisitions: the first fails in the try block, the second
\* is processed and saved
FailureThenSaved ==
    /\ pc = "done"
    /\ Len(log) = 2
    /\ log[1].outcome = "error" /\ listing[1] \in {"corrupt", "uncycled", "unwritable"}
    /\ log[2].outcome = "saved" /\ "swh" \in DOMAIN outputs[2].vars

\* C10 as claimed: every acquisition's call of add_quality_indices is handed
\* the Quality Spec of the configuration file, and when its drop flag is set
\* no saved product holds the confidence input swh_conf.
QualitySpecSameForAll ==
    /\ \A k \in 1..Len(log) :
          log[k].passed # "n/a" => log[k].passed = DropKey(yaml.quality_variables)
    /\ \A k \in 1..Len(log) :
          (DropKey(yaml.quality_variables) = "true" /\ log[k].outcome = "saved")
              => "swh_conf" \notin DOMAIN outputs[k].vars

\* a Quality Spec with an entry whose thresholds satisfy t1 >= t2
Malformed(qv) ==
    /\ ~qv.none
    /\ \E k \in 1..Len(qv.entries) :
          qv.entries[k].thresholds[1] >= qv.entries[k].thresholds[2]

\* C11 as claimed: under a configuration file whose Quality Spec is malformed
\* the run is fatal as a whole: no acquisition of the listing reaches
\* add_quality_indices, none is saved, and the loop never ends normally.
MalformedSpecIsFatal ==
    Malformed(yaml.quality_variables) =>
        /\ \A k \in 1..Len(log) :
              log[k].passed = "n/a" /\ log[k].outcome # "saved"
        /\ pc # "done"

====
